---- MODULE Spec2Model ----
(***************************************************************************)
(* A model of the nicha_momo client library: the MomoAuth token manager    *)
(* (auth.py) and the Collections, Disbursements, Invoices and KYC services *)
(* bound to it, together with the provider they talk to.                   *)
(*                                                                         *)
(* Python values are represented as follows.  None is 0 for the ids,       *)
(* NoKey for the api key and NoToken for the bearer tokens.  A uuid4() is  *)
(* a fresh number.  Strings whose characters matter (phone numbers,        *)
(* amounts, reference ids) are tuples of one-character strings.            *)
(* datetime.now() is the variable now, a clock that never runs backwards.  *)
(***************************************************************************)
EXTENDS Integers, Sequences, FiniteSets, TLC

\* ------------------------------------------------------------- bounds
MaxTime == 2
MaxUsers == 2
MaxKeys == 1
MaxTok == 1
MaxExpiresIn == 2
MaxLatency == 1
MaxConsents == 1
MaxThreads == 2
MaxExchanges == 2

\* ------------------------------------------------------------- values
None == 0
NoKey == <<0, 0>>
NoToken == <<"none", 0>>

UserIds == 1..MaxUsers
Tokens(product) == {product} \X (1..MaxTok)
AuthReqIds == 1..MaxConsents
Threads == 1..MaxThreads

VARIABLES
    api_user,       \* MomoAuth.api_user
    api_key,        \* MomoAuth.api_key
    token,          \* MomoAuth.token (one field for both products)
    token_expiry,   \* MomoAuth.token_expiry
    oauth_token,    \* MomoAuth.oauth_token
    oauth_expiry,   \* MomoAuth.oauth_expiry
    now,            \* datetime.now()
    generated,      \* how many uuid4() values were drawn for api users
    registered,     \* provider: the api users whose registration it accepted
    exchanged,      \* provider: how many token exchanges each consent id was sent in
    last,           \* observation of the last finished call
    th,             \* per thread: where it stands inside a token getter
    src             \* the threads whose responses token and token_expiry hold

vars == <<api_user, api_key, token, token_expiry, oauth_token, oauth_expiry,
          now, generated, registered, exchanged, last, th, src>>

auth == <<api_user, api_key, token, token_expiry, oauth_token, oauth_expiry>>
provider == <<generated, registered, exchanged>>
threads == <<th, src>>

\* ------------------------------------------------------------- inputs
\* The strings the calls are tried on, and the characters of each.
Phones == {"260771234567", "2567771234567", "0771234567"}

References ==
    {"12345678-1234-4234-8234-123456789abc", "12345678-1234-1234-8234-123456789abc", "zz"}

Chars(s) ==
    CASE s = "260771234567" ->
            <<"2", "6", "0", "7", "7", "1", "2", "3", "4", "5", "6", "7">>
      [] s = "2567771234567" ->
            <<"2", "5", "6", "7", "7", "7", "1", "2", "3", "4", "5", "6", "7">>
      [] s = "0771234567" ->
            <<"0", "7", "7", "1", "2", "3", "4", "5", "6", "7">>
      [] s = "12345678-1234-4234-8234-123456789abc" ->
            <<"1", "2", "3", "4", "5", "6", "7", "8", "-", "1", "2", "3", "4", "-", "4", "2", "3", "4", "-", "8", "2", "3", "4", "-", "1", "2", "3", "4", "5", "6", "7", "8", "9", "a", "b", "c">>
      [] s = "12345678-1234-1234-8234-123456789abc" ->
            <<"1", "2", "3", "4", "5", "6", "7", "8", "-", "1", "2", "3", "4", "-", "1", "2", "3", "4", "-", "8", "2", "3", "4", "-", "1", "2", "3", "4", "5", "6", "7", "8", "9", "a", "b", "c">>
      [] s = "zz" ->
            <<"z", "z">>
      [] s = "abc" ->
            <<"a", "b", "c">>
      [] s = "10.50" ->
            <<"1", "0", ".", "5", "0">>
      [] s = "-0.01" ->
            <<"-", "0", ".", "0", "1">>

\* ------------------------------------------------------------- strings
Digit == {"0", "1", "2", "3", "4", "5", "6", "7", "8", "9"}
HexDigit == Digit \cup {"a", "b", "c", "d", "e", "f", "A", "B", "C", "D", "E", "F"}

\* re.match(r'^<prefix>\d{n}$', s): `$` also matches before one final newline.
ReMatch(prefix, n, s) ==
    LET m == Len(prefix) + n IN
    /\ \/ Len(s) = m
       \/ Len(s) = m + 1 /\ s[m + 1] = "\n"
    /\ SubSeq(s, 1, Len(prefix)) = prefix
    /\ \A i \in (Len(prefix) + 1)..m : s[i] \in Digit

\* str.replace(old, ""): every occurrence of old is removed, left to right.
RECURSIVE Remove(_, _)
Remove(s, old) ==
    IF Len(s) < Len(old) THEN s
    ELSE IF SubSeq(s, 1, Len(old)) = old
    THEN Remove(SubSeq(s, Len(old) + 1, Len(s)), old)
    ELSE <<s[1]>> \o Remove(SubSeq(s, 2, Len(s)), old)

\* str.strip('{}')
RECURSIVE StripBraces(_)
StripBraces(s) ==
    IF s = <<>> THEN s
    ELSE IF s[1] \in {"{", "}"} THEN StripBraces(SubSeq(s, 2, Len(s)))
    ELSE IF s[Len(s)] \in {"{", "}"} THEN StripBraces(SubSeq(s, 1, Len(s) - 1))
    ELSE s

\* uuid.UUID(hex, version=4) raises ValueError unless, with 'urn:', 'uuid:',
\* outer braces and hyphens removed, 32 hexadecimal digits are left.  The
\* version argument overwrites the version and variant bits of the value; it
\* is not compared with the ones in the string.
UUIDHex(s) ==
    Remove(StripBraces(Remove(Remove(s, <<"u", "r", "n", ":">>), <<"u", "u", "i", "d", ":">>)),
           <<"-">>)

UUIDAccepts(s) ==
    LET hex == UUIDHex(s) IN Len(hex) = 32 /\ \A i \in 1..32 : hex[i] \in HexDigit

\* A well-formed version-4 UUID in its canonical text form (RFC 4122):
\* 8-4-4-4-12 hexadecimal digits, version digit 4, variant digit 8, 9, a or b.
IsUUID4(s) ==
    /\ Len(s) = 36
    /\ \A i \in 1..36 : IF i \in {9, 14, 19, 24} THEN s[i] = "-" ELSE s[i] \in HexDigit
    /\ s[15] = "4"
    /\ s[20] \in {"8", "9", "a", "b", "A", "B"}

\* ------------------------------------------------------------- amounts
\* A Python amount is [type, v]: an int (v its value), a float (v its value
\* in thousandths), a str (v its characters) or None.
RECURSIVE DigitsValue(_)
DigitsValue(s) ==
    IF s = <<>> THEN 0
    ELSE 10 * DigitsValue(SubSeq(s, 1, Len(s) - 1))
         + CHOOSE d \in 0..9 : ToString(d) = s[Len(s)]

AllDigits(s) == \A i \in 1..Len(s) : s[i] \in Digit

\* The first three fraction digits, padded with zeros.
Thousandths(frac) == DigitsValue(SubSeq(frac \o <<"0", "0", "0">>, 1, 3))

\* The parts of decimal text: sign, digits before and after the point.
Signed(s) == Len(s) > 0 /\ s[1] \in {"+", "-"}
Unsigned(s) == IF Signed(s) THEN SubSeq(s, 2, Len(s)) ELSE s
Points(s) == {i \in 1..Len(s) : s[i] = "."}
Whole(s) == IF Points(s) = {} THEN s ELSE SubSeq(s, 1, (CHOOSE i \in Points(s) : TRUE) - 1)
Fraction(s) ==
    IF Points(s) = {} THEN <<>> ELSE SubSeq(s, (CHOOSE i \in Points(s) : TRUE) + 1, Len(s))

\* float(str) takes plain decimal text: [sign] digits [. digits], with a digit
\* on at least one side of the point; anything else is a ValueError.
IsDecimal(s) ==
    LET body == Unsigned(s) IN
    /\ Cardinality(Points(body)) <= 1
    /\ AllDigits(Whole(body)) /\ AllDigits(Fraction(body))
    /\ Len(Whole(body)) + Len(Fraction(body)) > 0

ParseFloat(s) ==
    (IF Signed(s) /\ s[1] = "-" THEN -1 ELSE 1)
    * (1000 * DigitsValue(Whole(Unsigned(s))) + Thousandths(Fraction(Unsigned(s))))

\* float(amount) raises ValueError for other text and TypeError for None.
FloatRaises(a) == a.type = "NoneType" \/ (a.type = "str" /\ ~IsDecimal(Chars(a.v)))

\* float(amount), in thousandths
Float(a) ==
    CASE a.type = "int" -> 1000 * a.v
      [] a.type = "float" -> a.v
      [] OTHER -> ParseFloat(Chars(a.v))

RECURSIVE NatChars(_)
NatChars(n) ==
    IF n < 10 THEN <<ToString(n)>> ELSE NatChars(n \div 10) \o <<ToString(n % 10)>>

\* f"{x:.2f}" of a value in thousandths: rounded to hundredths, two digits.
Format2f(x) ==
    LET mag == IF x < 0 THEN -x ELSE x
        cents == (mag + 5) \div 10
    IN  (IF x < 0 THEN <<"-">> ELSE <<>>)
        \o NatChars(cents \div 100) \o <<".">>
        \o <<ToString((cents \div 10) % 10), ToString(cents % 10)>>

\* str(amount), as Invoices.create sends it.
Str(a) ==
    CASE a.type = "int" ->
            (IF a.v < 0 THEN <<"-">> ELSE <<>>) \o NatChars(IF a.v < 0 THEN -a.v ELSE a.v)
      [] a.type = "float" ->
            LET mag == IF a.v < 0 THEN -a.v ELSE a.v
                f == mag % 1000
            IN  (IF a.v < 0 THEN <<"-">> ELSE <<>>) \o NatChars(mag \div 1000) \o <<".">>
                \o (CASE f % 100 = 0 -> <<ToString(f \div 100)>>
                      [] f % 10 = 0 -> <<ToString(f \div 100), ToString((f \div 10) % 10)>>
                      [] OTHER -> <<ToString(f \div 100), ToString((f \div 10) % 10),
                                    ToString(f % 10)>>)
      [] a.type = "str" -> Chars(a.v)
      [] OTHER -> <<"N", "o", "n", "e">>

\* ------------------------------------------------------------- validation
Amounts == {[type |-> "int", v |-> 10], [type |-> "int", v |-> -5], [type |-> "str", v |-> "abc"]}
\* The negative sample is tried on the Collections calls, the others on every
\* call that takes an amount.
UnsignedAmounts == {a \in Amounts : a.type # "int" \/ a.v >= 0}

\* The validations of the services, computed once over the inputs.
\* re.match(r'^260\d{9}$', phone)
Match260 == {p \in Phones : ReMatch(<<"2", "6", "0">>, 9, Chars(p))}
\* re.match(r'^2567\d{9}$', phone)
Match2567 == {p \in Phones : ReMatch(<<"2", "5", "6", "7">>, 9, Chars(p))}
\* uuid.UUID(reference_id, version=4) does not raise
UUIDAccepted == {r \in References : UUIDAccepts(Chars(r))}
\* the references that are well-formed version-4 UUIDs
WellFormedV4 == {r \in References : IsUUID4(Chars(r))}
\* float(amount) does not raise
Floatable == {a \in Amounts : ~FloatRaises(a)}
\* f"{float(amount):.2f}"
Formatted == [a \in Floatable |-> Format2f(Float(a))]

\* str(uuid.uuid4()) of one call
reference_id == <<"uuid4">>

\* ------------------------------------------------------------- requests
\* One HTTP request: endpoint, basic-auth pair or bearer token, X-Reference-Id
\* header (None when the header is not sent) and body.
Request(ep, a, x, body) == [ep |-> ep, a |-> a, x |-> x, body |-> body]

IsTokenRequest(r) == r.ep \in {"collection/token", "disbursement/token", "oauth2/token"}

\* The answer to an API request: an HTTP status with the message of its JSON
\* body, or no answer at all (status 0).
NoResponse == [status |-> 0, message |-> "transport"]

\* What a call does: the exception it raises ("None": it returns) with its
\* message, the value it returns, the requests it sent in order (those of its
\* token getter g first), the token cache and the clock the getter leaves, the
\* answers to its token request and to its API request, and whether it ran
\* the settling delay.
Outcome(exc, msg, ret, g, reqs, resp, slept) ==
    [exc |-> exc, msg |-> msg, ret |-> ret, reqs |-> g.reqs \o reqs, token |-> g.token,
     token_expiry |-> g.token_expiry, now |-> g.now, tresp |-> g.tresp, resp |-> resp,
     slept |-> slept]

\* The manager's fields as a call finds them.
Snapshot == [api_user |-> api_user, api_key |-> api_key, token |-> token,
             token_expiry |-> token_expiry, oauth_token |-> oauth_token,
             oauth_expiry |-> oauth_expiry]

\* The observation a finished call leaves behind for its caller.
Idle == [op |-> "idle"]
Call(op, args, o, at, pre) ==
    [op |-> op, args |-> args, exc |-> o.exc, msg |-> o.msg, ret |-> o.ret,
     reqs |-> o.reqs, tresp |-> o.tresp, resp |-> o.resp, slept |-> o.slept,
     at |-> at, pre |-> pre]

\* ------------------------------------------------------------- provider
\* Basic-auth credentials the provider accepts: a registered user with a key
\* issued for it.  A key <<user, n>> is the n-th key value the provider has
\* for that user; keys come from the provider alone.
ValidCredentials(u, k) == u \in registered /\ k # NoKey /\ k[1] = u

\* The answers to a token request of `product` made with (u, k): a token of
\* that product with a lifetime, an HTTP error status, or a transport failure.
TokenResponses(product, u, k) ==
    (IF ValidCredentials(u, k)
     THEN [kind : {"ok"}, access_token : Tokens(product),
           expires_in : 1..MaxExpiresIn, status : {200}]
          \cup [kind : {"http"}, access_token : {NoToken}, expires_in : {0}, status : {500}]
     ELSE [kind : {"http"}, access_token : {NoToken}, expires_in : {0}, status : {401}])
    \cup [kind : {"transport"}, access_token : {NoToken}, expires_in : {0}, status : {0}]

\* Time a token request takes, as far as the clock of the model reaches.
Latencies(t) == {d \in 0..MaxLatency : t + d <= MaxTime}

\* The answers to the POST of a state-creating call.
PostResponses ==
    [status : {200, 202, 500}, message : {""}]
    \cup [status : {400},
          message : {"", "invalid currency", "name mismatch", "invalid reference"}]
    \cup {NoResponse}

\* The answers to any other API request.
ApiResponses == [status : {200, 401, 404, 500}, message : {""}] \cup {NoResponse}

\* ------------------------------------------------------------- MomoAuth
\* A thread that is in no getter.
Outside == [pc |-> "idle", product |-> "none", seen |-> 0, auth |-> <<None, NoKey>>,
            tresp |-> [kind |-> "none", access_token |-> NoToken, expires_in |-> 0,
                       status |-> 0]]

Init ==
    /\ api_user = None
    /\ api_key = NoKey
    /\ token = NoToken
    /\ token_expiry = 0
    /\ oauth_token = NoToken
    /\ oauth_expiry = 0
    /\ now = 0
    /\ generated = 0
    /\ registered = {}
    /\ exchanged = [a \in AuthReqIds |-> 0]
    /\ last = Idle
    /\ th = [t \in Threads |-> Outside]
    /\ src = [token |-> 0, token_expiry |-> 0]

is_initialized(u, k) == u # None /\ k # NoKey

NoTokenResponse == [kind |-> "none", access_token |-> NoToken, expires_in |-> 0, status |-> 0]

\* The result of a token getter: what it raises or returns, the request it
\* sent and its answer, the cache it leaves and the time at which it ends.
Result(exc, ret, reqs, tk, ex, t, tresp) ==
    [exc |-> exc, ret |-> ret, reqs |-> reqs, token |-> tk, token_expiry |-> ex,
     now |-> t, tresp |-> tresp]

\* A getter that is not called, or has nothing to do.
Untouched(tk, ex, t) == Result("None", NoToken, <<>>, tk, ex, t, NoTokenResponse)

ExceptionOf(kind) ==
    CASE kind = "ok" -> "None" [] kind = "http" -> "HTTPError" [] OTHER -> "RequestException"

\* Refresh with the expiry counted from the clock read before the request.
RefreshFromCheckTime(product, u, k, tk, ex, t) ==
    { IF r.kind = "ok"
      THEN Result("None", r.access_token, <<Request(product \o "/token", <<u, k>>, None, <<>>)>>,
                  r.access_token, t + r.expires_in, t + d, r)
      ELSE Result(ExceptionOf(r.kind), NoToken,
                  <<Request(product \o "/token", <<u, k>>, None, <<>>)>>, tk, ex, t + d, r)
      : r \in TokenResponses(product, u, k), d \in Latencies(t) }

\* Refresh with the cached token thrown away when the request has failed.
RefreshClearingOnFailure(product, u, k, tk, ex, t) ==
    { IF r.kind = "ok"
      THEN Result("None", r.access_token, <<Request(product \o "/token", <<u, k>>, None, <<>>)>>,
                  r.access_token, (t + d) + r.expires_in, t + d, r)
      ELSE Result(ExceptionOf(r.kind), NoToken,
                  <<Request(product \o "/token", <<u, k>>, None, <<>>)>>, NoToken, ex, t + d, r)
      : r \in TokenResponses(product, u, k), d \in Latencies(t) }

\* The refresh of both getters: one POST with basic auth; raise_for_status();
\* then token and token_expiry are written from the response, the expiry
\* from the clock as it stands after the response.
Refresh(product, u, k, tk, ex, t) ==
    { IF r.kind = "ok"
      THEN Result("None", r.access_token, <<Request(product \o "/token", <<u, k>>, None, <<>>)>>,
                  r.access_token, (t + d) + r.expires_in, t + d, r)
      ELSE Result(ExceptionOf(r.kind), NoToken,
                  <<Request(product \o "/token", <<u, k>>, None, <<>>)>>, tk, ex, t + d, r)
      : r \in TokenResponses(product, u, k), d \in Latencies(t) }

\* The cache test of get_collection_token with the comparison turned round.
CollectionCacheHitReversed(tk, ex, t) == t > ex /\ tk # NoToken

\* auth.py line 48
CollectionCacheHit(tk, ex, t) == t < ex /\ tk # NoToken

get_collection_token(u, k, tk, ex, t) ==
    IF CollectionCacheHit(tk, ex, t)
    THEN {Result("None", tk, <<>>, tk, ex, t, NoTokenResponse)}
    ELSE IF u = None \/ k = NoKey
    THEN {Result("ValueError", NoToken, <<>>, tk, ex, t, NoTokenResponse)}
    ELSE Refresh("collection", u, k, tk, ex, t)

\* The cache test of get_disbursement_token taking the instant of expiry as valid.
DisbursementCacheHitInclusive(tk, ex, t) == t <= ex

\* auth.py line 72
DisbursementCacheHit(tk, ex, t) == t < ex

get_disbursement_token(u, k, tk, ex, t) ==
    IF DisbursementCacheHit(tk, ex, t)
    THEN {Result("None", tk, <<>>, tk, ex, t, NoTokenResponse)}
    ELSE Refresh("disbursement", u, k, tk, ex, t)

\* The getters as a service calls them on the manager it is bound to.
CollectionToken(t) == get_collection_token(api_user, api_key, token, token_expiry, t)
DisbursementToken(t) == get_disbursement_token(api_user, api_key, token, token_expiry, t)

\* Calls are made one after the other: the next starts when the caller has
\* taken the result of the last.
Ready == last = Idle

\* A finished call: the cache and the clock are as the outcome o leaves them.
Finish(op, args, o) ==
    /\ token' = o.token
    /\ token_expiry' = o.token_expiry
    /\ now' = o.now
    /\ last' = Call(op, args, o, now, Snapshot)
    /\ UNCHANGED <<threads, exchanged>>

\* The outcome of a call that raises exc before it reaches any getter.
Raise(exc, msg) ==
    Outcome(exc, msg, <<"none">>, Untouched(token, token_expiry, now), <<>>, NoResponse, FALSE)

\* The outcome of a call whose getter g raised: the exception passes through.
Propagate(g, slept) == Outcome(g.exc, "", <<"none">>, g, <<>>, NoResponse, slept)

\* create_api_user: the new id is stored before the request is sent.
create_api_user ==
    \E kind \in {"ok", "http", "transport"} :
        /\ Ready
        /\ generated < MaxUsers
        /\ generated' = generated + 1
        /\ api_user' = generated + 1
        /\ registered' = IF kind = "ok" THEN registered \cup {generated + 1} ELSE registered
        /\ Finish("create_api_user", <<>>,
                  Outcome(ExceptionOf(kind), "",
                          IF kind = "ok" THEN <<"user", generated + 1>> ELSE <<"none">>,
                          Untouched(token, token_expiry, now),
                          <<Request("apiuser", None, generated + 1, <<>>)>>,
                          NoResponse, FALSE))
        /\ UNCHANGED <<api_key, oauth_token, oauth_expiry>>

\* create_api_key storing the key it asked for before raise_for_status().
create_api_key_stored_early ==
    \E kind \in {"ok", "http", "transport"}, n \in 1..MaxKeys :
        /\ Ready
        /\ (kind = "ok") => (api_user \in registered)
        /\ (kind # "ok") => (n = 1)
        /\ api_key' = <<api_user, n>>
        /\ Finish("create_api_key", <<>>,
                  Outcome(ExceptionOf(kind), "",
                          IF kind = "ok" THEN <<"key", <<api_user, n>>>> ELSE <<"none">>,
                          Untouched(token, token_expiry, now),
                          <<Request("apikey", None, api_user, <<>>)>>,
                          NoResponse, FALSE))
        /\ UNCHANGED <<api_user, oauth_token, oauth_expiry, generated, registered>>

\* create_api_key: the request is sent whatever api_user holds; the key is
\* stored only after raise_for_status() passed.
create_api_key ==
    \E kind \in {"ok", "http", "transport"}, n \in 1..MaxKeys :
        /\ Ready
        /\ (kind = "ok") => (api_user \in registered)
        /\ (kind # "ok") => (n = 1)
        /\ api_key' = IF kind = "ok" THEN <<api_user, n>> ELSE api_key
        /\ Finish("create_api_key", <<>>,
                  Outcome(ExceptionOf(kind), "",
                          IF kind = "ok" THEN <<"key", <<api_user, n>>>> ELSE <<"none">>,
                          Untouched(token, token_expiry, now),
                          <<Request("apikey", None, api_user, <<>>)>>,
                          NoResponse, FALSE))
        /\ UNCHANGED <<api_user, oauth_token, oauth_expiry, generated, registered>>

GetterOutcome(g) ==
    Outcome(g.exc, "", IF g.exc = "None" THEN <<"token", g.ret>> ELSE <<"none">>, g, <<>>,
            NoResponse, FALSE)

GetCollectionToken ==
    /\ Ready
    /\ \E g \in CollectionToken(now) :
        /\ Finish("get_collection_token", <<>>, GetterOutcome(g))
        /\ UNCHANGED <<api_user, api_key, oauth_token, oauth_expiry, provider>>

GetDisbursementToken ==
    /\ Ready
    /\ \E g \in DisbursementToken(now) :
        /\ Finish("get_disbursement_token", <<>>, GetterOutcome(g))
        /\ UNCHANGED <<api_user, api_key, oauth_token, oauth_expiry, provider>>

\* ------------------------------------------------------------- services
\* countdown(6) of utils: the settling delay.  The clock of the model counts
\* in steps of six seconds.
countdown(t) == t + 1

\* The JSON payload of a state-creating request.
Payload(amount, currency, party) == [amount |-> amount, currency |-> currency, party |-> party]

\* Accept with the token cache thrown away whenever the POST has failed.
AcceptDroppingToken(g, req, recognised) ==
    LET dropped == [g EXCEPT !.token = NoToken, !.token_expiry = 0] IN
    { CASE resp = NoResponse ->
              Outcome("ConnectionError", "failed", <<"none">>, dropped, <<req>>, resp, FALSE)
        [] resp.status = 400 /\ resp.message \in DOMAIN recognised ->
              Outcome("ValueError", recognised[resp.message], <<"none">>, dropped, <<req>>,
                      resp, FALSE)
        [] resp.status >= 400 ->
              Outcome("ConnectionError", "failed", <<"none">>, dropped, <<req>>, resp, FALSE)
        [] OTHER ->
              Outcome("None", "", <<"ref", req.x>>, g, <<req>>, resp, FALSE)
      : resp \in PostResponses }

\* The POST of a state-creating call and what the call makes of the answer
\* (collections.py 108-124): 202 returns the reference id; a 400 whose
\* message is one the call recognises raises ValueError; raise_for_status()
\* turns any other status from 400 on into a ConnectionError, as does a
\* transport failure; every other status falls through to the final return.
Accept(g, req, recognised) ==
    { CASE resp = NoResponse ->
              Outcome("ConnectionError", "failed", <<"none">>, g, <<req>>, resp, FALSE)
        [] resp.status = 400 /\ resp.message \in DOMAIN recognised ->
              Outcome("ValueError", recognised[resp.message], <<"none">>, g, <<req>>, resp, FALSE)
        [] resp.status >= 400 ->
              Outcome("ConnectionError", "failed", <<"none">>, g, <<req>>, resp, FALSE)
        [] OTHER ->
              Outcome("None", "", <<"ref", req.x>>, g, <<req>>, resp, FALSE)
      : resp \in PostResponses }

\* The GET of a status check (collections.py 155-166).
Query(g, req, notFound) ==
    { CASE resp = NoResponse ->
              Outcome("ConnectionError", "API connection failed", <<"none">>, g, <<req>>, resp, TRUE)
        [] resp.status = 404 ->
              Outcome("ConnectionError", notFound, <<"none">>, g, <<req>>, resp, TRUE)
        [] resp.status >= 400 ->
              Outcome("ConnectionError", "Status check failed", <<"none">>, g, <<req>>, resp, TRUE)
        [] OTHER ->
              Outcome("None", "", <<"json", resp.status>>, g, <<req>>, resp, TRUE)
      : resp \in ApiResponses }

\* The exception the services raise for input they reject before any request
\* (collections.py 76, 81) and the one they raise for a failed request
\* (collections.py 123).
ValidationFailure == "ValueError"
ConnectionFailure == "ConnectionError"

\* A call asks its getter for the bearer token outside any try block: what
\* the getter raises passes through, otherwise the call goes on with Then.
WithToken(getter, slept, Then(_)) ==
    UNION { IF g.exc # "None" THEN {Propagate(g, slept)} ELSE Then(g) : g \in getter }

InvalidCurrency == [m \in {"invalid currency"} |-> "Only EUR supported in sandbox"]
NameMismatch == [m \in {"name mismatch"} |-> "Recipient name validation failed"]
InvalidReference == [m \in {"invalid reference"} |-> "Invalid original transaction ID"]
CashInErrors ==
    [m \in {"invalid currency", "name mismatch"} |->
        IF m = "invalid currency" THEN "Only EUR supported in sandbox"
        ELSE "Recipient name validation failed"]

\* Collections.request_payment
request_payment(phone, amount) ==
    LET Post(g) == Accept(g, Request("collection/v1_0/requesttopay", g.ret, reference_id,
                                     Payload(Formatted[amount], "EUR", phone)),
                          InvalidCurrency)
    IN  IF ~is_initialized(api_user, api_key)
        THEN {Raise("RuntimeError", "Auth not initialized")}
        ELSE IF phone \notin Match260
        THEN {Raise("ValueError", "Invalid phone format")}
        ELSE IF amount \notin Floatable
        THEN {Raise("ValueError", "Invalid amount format")}
        ELSE WithToken(CollectionToken(now), FALSE, Post)

\* Collections.request_cash_out
request_cash_out(phone, amount) ==
    LET Post(g) == Accept(g, Request("collection/v1_0/requesttowithdraw", g.ret, reference_id,
                                     Payload(Formatted[amount], "EUR", phone)),
                          InvalidCurrency)
    IN  IF phone \notin Match260
        THEN {Raise("ValueError", "Invalid phone format")}
        ELSE IF amount \notin Floatable
        THEN {Raise("ValueError", "Invalid amount format")}
        ELSE WithToken(CollectionToken(now), FALSE, Post)

\* The status checks of both services: uuid.UUID(reference_id, version=4),
\* countdown(6), the getter, the GET.
check_status(getter, ep, notFound, ref) ==
    LET Get(g) == Query(g, Request(ep, g.ret, None, ref), notFound)
    IN  IF ref \notin UUIDAccepted
        THEN {Raise("ValueError", "Invalid transaction reference ID format")}
        ELSE WithToken(getter, TRUE, Get)

\* Collections.check_payment_status
check_payment_status(ref) ==
    check_status(CollectionToken(countdown(now)), "collection/v1_0/requesttopay/{id}",
                 "Transaction not found", ref)

\* Collections.send_payment_notification
send_payment_notification(ref) ==
    LET Post(g) ==
            { IF resp = NoResponse
              THEN Outcome("ConnectionError", "Notification failed", <<"none">>, g,
                           <<Request("collection/v1_0/requesttopay/{id}/deliverynotification",
                                     g.ret, None, ref)>>, resp, FALSE)
              ELSE Outcome("None", "", <<"bool", resp.status = 200>>, g,
                           <<Request("collection/v1_0/requesttopay/{id}/deliverynotification",
                                     g.ret, None, ref)>>, resp, FALSE)
              : resp \in ApiResponses }
    IN  WithToken(CollectionToken(now), FALSE, Post)

\* transfer_funds asking for the bearer token before it validates its input.
transfer_funds_token_first(phone, amount, currency) ==
    LET Post(g) ==
            IF phone \notin Match2567
            THEN {Outcome("ValueError", "Invalid phone format", <<"none">>, g, <<>>,
                          NoResponse, FALSE)}
            ELSE IF amount \notin Floatable
            THEN {Outcome("ValueError", "Invalid amount format", <<"none">>, g, <<>>,
                          NoResponse, FALSE)}
            ELSE Accept(g, Request("disbursement/v1_0/transfer", g.ret, reference_id,
                                   Payload(Formatted[amount], currency, phone)),
                        NameMismatch)
    IN  WithToken(DisbursementToken(now), FALSE, Post)

\* Disbursements.transfer_funds
transfer_funds(phone, amount, currency) ==
    LET Post(g) == Accept(g, Request("disbursement/v1_0/transfer", g.ret, reference_id,
                                     Payload(Formatted[amount], currency, phone)),
                          NameMismatch)
    IN  IF phone \notin Match2567
        THEN {Raise("ValueError", "Invalid phone format")}
        ELSE IF amount \notin Floatable
        THEN {Raise("ValueError", "Invalid amount format")}
        ELSE WithToken(DisbursementToken(now), FALSE, Post)

\* Disbursements.check_transfer_status
check_transfer_status(ref) ==
    check_status(DisbursementToken(countdown(now)), "disbursement/v1_0/transfer/{id}",
                 "Transaction not found", ref)

\* Disbursements.refund_transaction
refund_transaction(original_reference, amount) ==
    LET Post(g) == Accept(g, Request("disbursement/v1_0/refund", g.ret, reference_id,
                                     Payload(Formatted[amount], "EUR", original_reference)),
                          InvalidReference)
    IN  IF amount \notin Floatable
        THEN {Raise("ValueError", "Invalid amount format")}
        ELSE WithToken(DisbursementToken(now), FALSE, Post)

\* Disbursements.deposit_funds
deposit_funds(phone, amount) ==
    LET Post(g) == Accept(g, Request("disbursement/v1_0/deposit", g.ret, reference_id,
                                     Payload(Formatted[amount], "EUR", phone)),
                          NameMismatch)
    IN  IF phone \notin Match2567
        THEN {Raise("ValueError", "Invalid phone format")}
        ELSE IF amount \notin Floatable
        THEN {Raise("ValueError", "Invalid amount format")}
        ELSE WithToken(DisbursementToken(now), FALSE, Post)

\* Disbursements.cash_in
cash_in(phone, amount, currency) ==
    LET Post(g) == Accept(g, Request("disbursement/v1_0/deposit", g.ret, reference_id,
                                     Payload(Formatted[amount], currency, phone)),
                          CashInErrors)
    IN  IF phone \notin Match260
        THEN {Raise("ValueError", "Invalid phone format")}
        ELSE IF amount \notin Floatable
        THEN {Raise("ValueError", "Invalid amount format")}
        ELSE WithToken(DisbursementToken(now), FALSE, Post)

\* Disbursements.check_cash_in_status
check_cash_in_status(ref) ==
    check_status(DisbursementToken(countdown(now)), "disbursement/v1_0/deposit/{id}",
                 "Cash In transaction not found", ref)

\* A service call leaves everything but the token cache and the clock alone.
Service(op, args, outcomes) ==
    /\ Ready
    /\ \E o \in outcomes :
        /\ o.now <= MaxTime
        /\ Finish(op, args, o)
        /\ UNCHANGED <<api_user, api_key, oauth_token, oauth_expiry, provider>>

RequestPayment ==
    \E phone \in Phones, amount \in Amounts :
        Service("request_payment", <<phone, amount>>, request_payment(phone, amount))

RequestCashOut ==
    \E phone \in Phones, amount \in Amounts :
        Service("request_cash_out", <<phone, amount>>, request_cash_out(phone, amount))

CheckPaymentStatus ==
    \E ref \in References :
        Service("check_payment_status", <<ref>>, check_payment_status(ref))

SendPaymentNotification ==
    \E ref \in References :
        Service("send_payment_notification", <<ref>>, send_payment_notification(ref))

TransferFunds ==
    \E phone \in Phones, amount \in UnsignedAmounts :
        Service("transfer_funds", <<phone, amount>>, transfer_funds(phone, amount, "EUR"))

CheckTransferStatus ==
    \E ref \in References :
        Service("check_transfer_status", <<ref>>, check_transfer_status(ref))

RefundTransaction ==
    \E ref \in References, amount \in UnsignedAmounts :
        Service("refund_transaction", <<ref, amount>>, refund_transaction(ref, amount))

DepositFunds ==
    \E phone \in Phones, amount \in UnsignedAmounts :
        Service("deposit_funds", <<phone, amount>>, deposit_funds(phone, amount))

CashIn ==
    \E phone \in Phones, amount \in UnsignedAmounts :
        Service("cash_in", <<phone, amount>>, cash_in(phone, amount, "EUR"))

CheckCashInStatus ==
    \E ref \in References :
        Service("check_cash_in_status", <<ref>>, check_cash_in_status(ref))

\* Invoices.create: nothing is validated, the amount is sent as str(amount),
\* and no exception is caught.
create(amount, payer_phone, payee_phone) ==
    LET req(g) == Request("collection/v2_0/invoice", g.ret, reference_id,
                          Payload(Str(amount), "EUR", <<payer_phone, payee_phone>>))
        Post(g) ==
            { CASE resp = NoResponse ->
                      Outcome("RequestException", "", <<"none">>, g, <<req(g)>>, resp, FALSE)
                [] resp.status >= 400 ->
                      Outcome("HTTPError", "", <<"none">>, g, <<req(g)>>, resp, FALSE)
                [] OTHER ->
                      Outcome("None", "", <<"ref", reference_id>>, g, <<req(g)>>, resp, FALSE)
              : resp \in PostResponses }
    IN  WithToken(CollectionToken(now), FALSE, Post)

\* Invoices.check_status: the body is returned whatever the status.
invoice_check_status(invoice_id) ==
    LET req(g) == Request("collection/v2_0/invoice/{id}", g.ret, None, invoice_id)
        Get(g) ==
            { IF resp = NoResponse
              THEN Outcome("RequestException", "", <<"none">>, g, <<req(g)>>, resp, FALSE)
              ELSE Outcome("None", "", <<"json", resp.status>>, g, <<req(g)>>, resp, FALSE)
              : resp \in ApiResponses }
    IN  WithToken(CollectionToken(now), FALSE, Get)

\* Invoices.delete
delete(invoice_id) ==
    LET req(g) == Request("collection/v2_0/invoice/{id}", g.ret, reference_id, invoice_id)
        Delete(g) ==
            { IF resp = NoResponse
              THEN Outcome("RequestException", "", <<"none">>, g, <<req(g)>>, resp, FALSE)
              ELSE Outcome("None", "", <<"bool", resp.status = 200>>, g, <<req(g)>>, resp, FALSE)
              : resp \in ApiResponses }
    IN  WithToken(CollectionToken(now), FALSE, Delete)

\* KYC.get_basic_info: only HTTPError is caught.
get_basic_info(phone) ==
    LET req(g) == Request("disbursement/v1_0/accountholder/msisdn/{phone}/basicuserinfo",
                          g.ret, None, phone)
        Get(g) ==
            { CASE resp = NoResponse ->
                      Outcome("RequestException", "", <<"none">>, g, <<req(g)>>, resp, FALSE)
                [] resp.status = 404 ->
                      Outcome("ConnectionError", "User not found", <<"none">>, g, <<req(g)>>,
                              resp, FALSE)
                [] resp.status >= 400 ->
                      Outcome("ConnectionError", "KYC check failed", <<"none">>, g, <<req(g)>>,
                              resp, FALSE)
                [] OTHER ->
                      Outcome("None", "", <<"info", resp.status>>, g, <<req(g)>>, resp, FALSE)
              : resp \in ApiResponses }
    IN  IF phone \notin Match260
        THEN {Raise("ValueError", "Invalid phone format")}
        ELSE WithToken(DisbursementToken(now), FALSE, Get)

\* KYC.validate_identity: the record is compared with the name given (match
\* says how the comparison ends); every exception becomes a ConnectionError.
validate_identity(phone, match) ==
    { IF o.exc = "None"
      THEN [o EXCEPT !.ret = <<"bool", match>>]
      ELSE [o EXCEPT !.exc = "ConnectionError", !.msg = "Identity verification failed"]
      : o \in get_basic_info(phone) }

\* KYC.request_consent: the provider names the consent it opened.
request_consent(phone, auth_req_id) ==
    LET req(g) == Request("disbursement/v1_0/bc-authorize", g.ret, None, phone)
        Post(g) ==
            { CASE resp = NoResponse ->
                      Outcome("RequestException", "", <<"none">>, g, <<req(g)>>, resp, FALSE)
                [] resp.status >= 400 ->
                      Outcome("ConnectionError", "Consent request failed", <<"none">>, g,
                              <<req(g)>>, resp, FALSE)
                [] OTHER ->
                      Outcome("None", "", <<"auth_req_id", auth_req_id>>, g, <<req(g)>>, resp,
                              FALSE)
              : resp \in ApiResponses }
    IN  WithToken(DisbursementToken(now), FALSE, Post)

\* MomoAuth.get_oauth_token: always one POST; oauth_token and oauth_expiry
\* are written after raise_for_status() passed.  The result carries the
\* OAuth pair in place of the bearer cache.
get_oauth_token(auth_req_id, u, k, tk, ex, t) ==
    { IF r.kind = "ok"
      THEN Result("None", r.access_token, <<Request("oauth2/token", <<u, k>>, None, auth_req_id)>>,
                  r.access_token, t + r.expires_in, t, r)
      ELSE Result(ExceptionOf(r.kind), NoToken,
                  <<Request("oauth2/token", <<u, k>>, None, auth_req_id)>>, tk, ex, t, r)
      : r \in TokenResponses("oauth", u, k) \cup
              [kind : {"http"}, access_token : {NoToken}, expires_in : {0}, status : {400}] }

\* KYC.get_detailed_info: the exchange first, then the userinfo GET with the
\* OAuth token; only HTTPError is caught.
get_detailed_info(auth_req_id, g) ==
    LET req == Request("disbursement/oauth2/v1_0/userinfo", g.ret, None, <<>>)
        bearer == [g EXCEPT !.token = token, !.token_expiry = token_expiry]
    IN  IF g.exc # "None" THEN {Propagate(bearer, FALSE)}
        ELSE { CASE resp = NoResponse ->
                       Outcome("RequestException", "", <<"none">>, bearer, <<req>>, resp, FALSE)
                 [] resp.status = 401 ->
                       Outcome("ConnectionError", "Consent expired or revoked", <<"none">>,
                               bearer, <<req>>, resp, FALSE)
                 [] resp.status >= 400 ->
                       Outcome("ConnectionError", "Data access failed", <<"none">>, bearer,
                               <<req>>, resp, FALSE)
                 [] OTHER ->
                       Outcome("None", "", <<"info", resp.status>>, bearer, <<req>>, resp, FALSE)
               : resp \in ApiResponses }

InvoiceCreate ==
    \E amount \in UnsignedAmounts, payer_phone \in {"0771234567"}, payee_phone \in {"260771234567"} :
        Service("Invoices.create", <<amount, payer_phone, payee_phone>>,
                create(amount, payer_phone, payee_phone))

InvoiceCheckStatus ==
    \E invoice_id \in {"zz"} :
        Service("Invoices.check_status", <<invoice_id>>, invoice_check_status(invoice_id))

InvoiceDelete ==
    \E invoice_id \in {"zz"} :
        Service("Invoices.delete", <<invoice_id>>, delete(invoice_id))

GetBasicInfo ==
    \E phone \in Phones :
        Service("get_basic_info", <<phone>>, get_basic_info(phone))

ValidateIdentity ==
    \E phone \in Phones, match \in BOOLEAN :
        Service("validate_identity", <<phone>>, validate_identity(phone, match))

RequestConsent ==
    \E phone \in {"260771234567"}, auth_req_id \in AuthReqIds :
        Service("request_consent", <<phone>>, request_consent(phone, auth_req_id))

\* The token exchanges sent so far for the consent ids 1..n; the model stops
\* sending exchanges after MaxExchanges of them.
RECURSIVE ExchangesSent(_)
ExchangesSent(n) == IF n = 0 THEN 0 ELSE exchanged[n] + ExchangesSent(n - 1)

GetOauthToken ==
    /\ Ready
    /\ \E auth_req_id \in AuthReqIds :
         \E g \in get_oauth_token(auth_req_id, api_user, api_key, oauth_token, oauth_expiry, now) :
            /\ ExchangesSent(MaxConsents) < MaxExchanges
            /\ exchanged' = [exchanged EXCEPT ![auth_req_id] = @ + 1]
            /\ oauth_token' = g.token
            /\ oauth_expiry' = g.token_expiry
            /\ last' = Call("get_oauth_token", <<auth_req_id>>,
                            GetterOutcome([g EXCEPT !.token = token,
                                                    !.token_expiry = token_expiry]),
                            now, Snapshot)
            /\ UNCHANGED <<api_user, api_key, token, token_expiry, now, generated, registered,
                           threads>>

GetDetailedInfo ==
    /\ Ready
    /\ \E auth_req_id \in AuthReqIds :
         \E g \in get_oauth_token(auth_req_id, api_user, api_key, oauth_token, oauth_expiry, now) :
            \E o \in get_detailed_info(auth_req_id, g) :
                /\ ExchangesSent(MaxConsents) < MaxExchanges
                /\ exchanged' = [exchanged EXCEPT ![auth_req_id] = @ + 1]
                /\ oauth_token' = g.token
                /\ oauth_expiry' = g.token_expiry
                /\ last' = Call("get_detailed_info", <<auth_req_id>>, o, now, Snapshot)
                /\ UNCHANGED <<api_user, api_key, token, token_expiry, now, generated,
                               registered, threads>>

\* The caller takes the result of the call.
Return ==
    /\ last # Idle
    /\ last' = Idle
    /\ UNCHANGED <<auth, now, provider, threads>>

\* The clock advances between calls.
Tick ==
    /\ Ready
    /\ now < MaxTime
    /\ now' = now + 1
    /\ UNCHANGED <<auth, provider, last, threads>>

Next ==
    \/ create_api_user
    \/ create_api_key
    \/ GetCollectionToken
    \/ GetDisbursementToken
    \/ RequestPayment
    \/ RequestCashOut
    \/ CheckPaymentStatus
    \/ SendPaymentNotification
    \/ TransferFunds
    \/ CheckTransferStatus
    \/ RefundTransaction
    \/ DepositFunds
    \/ CashIn
    \/ CheckCashInStatus
    \/ InvoiceCreate
    \/ InvoiceCheckStatus
    \/ InvoiceDelete
    \/ GetBasicInfo
    \/ ValidateIdentity
    \/ RequestConsent
    \/ Return
    \/ Tick

\* The manager with the Collections, Disbursements and Invoices services and
\* the KYC calls that use the bearer token.
Spec == Init /\ [][Next]_vars

NextOAuth ==
    \/ create_api_user
    \/ create_api_key
    \/ GetCollectionToken
    \/ GetDisbursementToken
    \/ GetOauthToken
    \/ RequestConsent
    \/ GetDetailedInfo
    \/ Return
    \/ Tick

\* The manager with the consent flow of KYC.
SpecOAuth == Init /\ [][NextOAuth]_vars

NextConsent ==
    \/ create_api_user
    \/ create_api_key
    \/ RequestConsent
    \/ GetDetailedInfo
    \/ Return
    \/ Tick

\* The manager under sequences of request_consent and get_detailed_info.
SpecConsent == Init /\ [][NextConsent]_vars

\* ------------------------------------------------------------- threads
\* The token getters as threads run them on one shared manager.  A thread
\* can be suspended between any two reads or writes of the manager's fields
\* and while it waits for the provider; nothing in the getters keeps another
\* thread out.
Step(t, pc) == [th EXCEPT ![t].pc = pc]

\* A thread calls get_collection_token() or get_disbursement_token().
CallGetter ==
    \E t \in Threads, product \in {"collection", "disbursement"} :
        /\ Ready
        /\ th[t].pc = "idle"
        /\ th' = [th EXCEPT ![t].pc = "check", ![t].product = product]
        /\ UNCHANGED <<auth, now, provider, last, src>>

\* datetime.now() < self.token_expiry (auth.py lines 48 and 72)
CheckExpiry ==
    \E t \in Threads :
        /\ th[t].pc = "check"
        /\ th' = [th EXCEPT ![t].seen = token_expiry,
                            ![t].pc = IF now < token_expiry
                                      THEN (IF th[t].product = "collection"
                                            THEN "check_token" ELSE "return")
                                      ELSE (IF th[t].product = "collection"
                                            THEN "check_credentials" ELSE "send")]
        /\ UNCHANGED <<auth, now, provider, last, src>>

\* ... and self.token (auth.py line 48)
CheckToken ==
    \E t \in Threads :
        /\ th[t].pc = "check_token"
        /\ th' = Step(t, IF token # NoToken THEN "return" ELSE "check_credentials")
        /\ UNCHANGED <<auth, now, provider, last, src>>

\* if not self.api_user or not self.api_key: raise ValueError (auth.py line 51)
CheckCredentials ==
    \E t \in Threads :
        /\ th[t].pc = "check_credentials"
        /\ th' = IF api_user = None \/ api_key = NoKey
                 THEN [th EXCEPT ![t] = Outside]
                 ELSE Step(t, "send")
        /\ UNCHANGED <<auth, now, provider, last, src>>

\* requests.post(...): the token request leaves with the credentials read now.
Send ==
    \E t \in Threads :
        /\ th[t].pc = "send"
        /\ th' = [th EXCEPT ![t].pc = "waiting", ![t].auth = <<api_user, api_key>>]
        /\ UNCHANGED <<auth, now, provider, last, src>>

\* The answer arrives; raise_for_status() ends the call on a failure.
Receive ==
    \E t \in Threads :
        \E r \in TokenResponses(th[t].product, th[t].auth[1], th[t].auth[2]) :
            /\ th[t].pc = "waiting"
            /\ th' = IF r.kind = "ok"
                     THEN [th EXCEPT ![t].pc = "store_token", ![t].tresp = r]
                     ELSE [th EXCEPT ![t] = Outside]
            /\ UNCHANGED <<auth, now, provider, last, src>>

\* self.token = response.json()['access_token']
StoreToken ==
    \E t \in Threads :
        /\ th[t].pc = "store_token"
        /\ token' = th[t].tresp.access_token
        /\ src' = [src EXCEPT !.token = t]
        /\ th' = Step(t, "store_expiry")
        /\ UNCHANGED <<api_user, api_key, token_expiry, oauth_token, oauth_expiry, now,
                       provider, last>>

\* self.token_expiry = datetime.now() + timedelta(seconds=...['expires_in'])
StoreExpiry ==
    \E t \in Threads :
        /\ th[t].pc = "store_expiry"
        /\ token_expiry' = now + th[t].tresp.expires_in
        /\ src' = [src EXCEPT !.token_expiry = t]
        /\ th' = Step(t, "return")
        /\ UNCHANGED <<api_user, api_key, token, oauth_token, oauth_expiry, now,
                       provider, last>>

\* return self.token
ReturnToken ==
    \E t \in Threads :
        /\ th[t].pc = "return"
        /\ th' = [th EXCEPT ![t] = Outside]
        /\ UNCHANGED <<auth, now, provider, last, src>>

NextThreads ==
    \/ create_api_user
    \/ create_api_key
    \/ Return
    \/ Tick
    \/ CallGetter
    \/ CheckExpiry
    \/ CheckToken
    \/ CheckCredentials
    \/ Send
    \/ Receive
    \/ StoreToken
    \/ StoreExpiry
    \/ ReturnToken

\* One manager shared by threads that call its token getters.
SpecThreads == Init /\ [][NextThreads]_vars

\* ------------------------------------------------------------- claims
TokenGetters == {"get_collection_token", "get_disbursement_token"}

\* The manager was provisioned when the last call started.
WasProvisioned == is_initialized(last.pre.api_user, last.pre.api_key)

\* The token requests among the requests of the last call.
TokenRequests == SelectSeq(last.reqs, IsTokenRequest)

\* C1: a get_collection_token() call that finds a token T cached with
\* now < expiry returns exactly T, sends no request and leaves the cache as
\* it was - for every such call, however many were made before.
C1_CacheHit ==
    (/\ last.op = "get_collection_token"
     /\ last.pre.token # NoToken
     /\ last.at < last.pre.token_expiry)
    => (/\ last.exc = "None"
        /\ last.ret = <<"token", last.pre.token>>
        /\ last.reqs = <<>>
        /\ token = last.pre.token
        /\ token_expiry = last.pre.token_expiry)

\* C1 witness: the cached token came from a collection token request (so an
\* earlier get_collection_token() returned it), time has passed since, and
\* the call inside the window returned it again.
C1_Witness ==
    /\ last.op = "get_collection_token"
    /\ last.pre.token \in Tokens("collection")
    /\ last.at > 0
    /\ last.at < last.pre.token_expiry
    /\ last.ret = <<"token", last.pre.token>>
    /\ last.reqs = <<>>

\* C2: a token getter called at now >= expiry on a provisioned manager sends
\* exactly one token request, to its own product; when the provider answers
\* it successfully the call caches and returns the access_token of the answer
\* and sets the expiry to the clock after the answer plus its expires_in.
C2_RefreshAfterExpiry ==
    (/\ last.op \in TokenGetters
     /\ WasProvisioned
     /\ last.at >= last.pre.token_expiry)
    => (/\ Len(last.reqs) = 1
        /\ last.reqs[1].ep = (IF last.op = "get_collection_token"
                              THEN "collection/token" ELSE "disbursement/token")
        /\ last.tresp.kind = "ok" =>
              /\ last.exc = "None"
              /\ token = last.tresp.access_token
              /\ last.ret = <<"token", last.tresp.access_token>>
              /\ token_expiry = now + last.tresp.expires_in)

\* C2 witness: an expired token is replaced, by a request that took time.
C2_Witness ==
    /\ last.op = "get_disbursement_token"
    /\ WasProvisioned
    /\ last.pre.token # NoToken
    /\ last.at >= last.pre.token_expiry
    /\ last.tresp.kind = "ok"
    /\ now > last.at
    /\ token_expiry = now + last.tresp.expires_in

\* C3: get_disbursement_token() only returns tokens of disbursement token
\* requests and get_collection_token() only tokens of collection token
\* requests, and a refresh for one product leaves the token cached for the
\* other product and its expiry as they were.
C3_TokenIsolation ==
    /\ (last.op = "get_disbursement_token" /\ last.exc = "None")
          => last.ret[2] \in Tokens("disbursement")
    /\ (last.op = "get_collection_token" /\ last.exc = "None")
          => last.ret[2] \in Tokens("collection")
    /\ (last.op = "get_disbursement_token" /\ last.pre.token \in Tokens("collection"))
          => (token = last.pre.token /\ token_expiry = last.pre.token_expiry)
    /\ (last.op = "get_collection_token" /\ last.pre.token \in Tokens("disbursement"))
          => (token = last.pre.token /\ token_expiry = last.pre.token_expiry)

\* C4: a token getter that returns hands out a token that is present, and
\* that either was cached with now < expiry when the call started or is the
\* access_token of the one request the call itself sent.
C4_NoStaleToken ==
    (last.op \in TokenGetters /\ last.exc = "None")
    => (/\ last.ret[2] # NoToken
        /\ \/ (/\ last.reqs = <<>>
               /\ last.at < last.pre.token_expiry
               /\ last.ret[2] = last.pre.token)
           \/ (/\ Len(last.reqs) = 1
               /\ last.tresp.kind = "ok"
               /\ last.ret[2] = last.tresp.access_token))

\* C4 witness: a getter found an expired token in the cache and returned a
\* fresh one.
C4_Witness ==
    /\ last.op \in TokenGetters
    /\ last.exc = "None"
    /\ last.pre.token # NoToken
    /\ last.at >= last.pre.token_expiry
    /\ Len(last.reqs) = 1
    /\ last.ret[2] = last.tresp.access_token

\* A thread has sent its token request and not yet left the getter.
Requested(t) == th[t].pc \in {"waiting", "store_token", "store_expiry", "return"}
                /\ th[t].auth[1] # None /\ th[t].auth[2] # NoKey

\* C5: when threads share a provisioned manager whose token is expired, at most one of
\* them sends a token request for that expiry, and once no thread stands
\* between its two writes the cached token and expiry come from one answer.
C5_ConcurrentRefresh ==
    /\ \A t1, t2 \in Threads :
          (t1 # t2 /\ Requested(t1) /\ Requested(t2)
           /\ th[t1].product = th[t2].product)
          => th[t1].seen # th[t2].seen
    /\ (\A t \in Threads : th[t].pc # "store_expiry")
          => src.token = src.token_expiry

\* C6: on a manager that is not provisioned, a token getter or a service
\* operation sends no request at all and fails.
C6_ProvisioningGate ==
    (/\ last.op \notin {"idle", "create_api_user", "create_api_key"}
     /\ ~WasProvisioned)
    => (last.reqs = <<>> /\ last.exc # "None")

\* C7: create_api_key() with no user id stored fails without a request, and
\* a create_api_key() that fails leaves api_key as it was.
C7_CreateApiKeyNeedsUser ==
    last.op = "create_api_key"
    => (/\ last.pre.api_user = None => (last.reqs = <<>> /\ last.exc # "None")
        /\ last.exc # "None" => api_key = last.pre.api_key)

PhoneRule(op) ==
    IF op \in {"transfer_funds", "deposit_funds"} THEN Match2567 ELSE Match260

\* The phone and the amount among the arguments of a state-creating call.
FailsLocalValidation ==
    IF last.op = "refund_transaction" THEN last.args[2] \notin Floatable
    ELSE last.args[1] \notin PhoneRule(last.op) \/ last.args[2] \notin Floatable

\* C9: on a provisioned manager a state-creating call whose phone or amount
\* fails the local validation raises the validation failure and has sent no
\* request, neither for a token nor to the API, and the cache is untouched.
C9_FailFastValidation ==
    (/\ last.op \in {"request_payment", "request_cash_out", "transfer_funds",
                     "deposit_funds", "cash_in", "refund_transaction"}
     /\ WasProvisioned
     /\ FailsLocalValidation)
    => (/\ last.exc = "ValueError"
        /\ last.msg \in {"Invalid phone format", "Invalid amount format"}
        /\ last.reqs = <<>>
        /\ token = last.pre.token
        /\ token_expiry = last.pre.token_expiry)

\* C9 witness: the rejected call found an expired token in the cache, so it
\* would have had to refresh it had it come that far.
C9_Witness ==
    /\ last.op = "transfer_funds"
    /\ WasProvisioned
    /\ FailsLocalValidation
    /\ last.pre.token # NoToken
    /\ last.at >= last.pre.token_expiry
    /\ last.exc = "ValueError"

\* C10: a status check (here on a provisioned manager) given a reference that
\* is not a well-formed version-4 UUID raises the validation failure, runs no
\* settling delay and sends no request.
C10_StatusCheckRejectsNonV4 ==
    (/\ last.op \in {"check_payment_status", "check_transfer_status", "check_cash_in_status"}
     /\ WasProvisioned
     /\ last.args[1] \notin WellFormedV4)
    => (/\ last.exc = "ValueError"
        /\ ~last.slept
        /\ last.reqs = <<>>)

\* The calls that create a transaction at the provider.
Creators == {"request_payment", "request_cash_out", "transfer_funds", "deposit_funds",
             "cash_in", "refund_transaction"}

\* The requests of the last call that went to the API, not to a token endpoint.
ApiRequests == SelectSeq(last.reqs, LAMBDA r : ~IsTokenRequest(r))

\* C11: a state-creating call that returns a reference id got HTTP 202 for a
\* request whose X-Reference-Id is the id returned; after any other status
\* the call returns no reference id.
C11_AcceptanceMeans202 ==
    (/\ last.op \in Creators
     /\ last.exc = "None")
    => (/\ last.resp.status = 202
        /\ Len(ApiRequests) = 1
        /\ last.ret = <<"ref", ApiRequests[1].x>>)

\* C12: when the provider answers request_payment with 400 and a message
\* holding "invalid currency", the call fails with the message that only EUR
\* is supported in sandbox, and with a failure kind that is neither the one
\* of the local validation nor the one of transport and connection failures.
C12_InvalidCurrencyIsProviderFailure ==
    (/\ last.op = "request_payment"
     /\ last.resp.status = 400
     /\ last.resp.message = "invalid currency")
    => (/\ last.msg = "Only EUR supported in sandbox"
        /\ last.exc \notin {"None", ValidationFailure, ConnectionFailure})

\* C13: for a reference the check accepts, check_payment_status ends a 404
\* with a not-found failure and every other failed GET with the connection
\* failure, two different kinds.
C13_NotFoundIsItsOwnKind ==
    (/\ last.op = "check_payment_status"
     /\ last.args[1] \in WellFormedV4
     /\ Len(ApiRequests) = 1)
    => (/\ last.resp.status = 404
            => last.exc \notin {"None", ConnectionFailure}
        /\ (last.resp = NoResponse \/ (last.resp.status >= 400 /\ last.resp.status # 404))
            => last.exc = ConnectionFailure)

\* The last call told its caller that it failed: it raised, or it returned
\* False where it returns whether the provider acknowledged.
ReportsFailure == last.exc # "None" \/ last.ret = <<"bool", FALSE>>

\* The token request, or the API request, of the last call failed.
TokenRequestFailed == Len(TokenRequests) > 0 /\ last.tresp.kind \in {"http", "transport"}
ApiRequestFailed ==
    Len(ApiRequests) > 0 /\ (last.resp = NoResponse \/ last.resp.status >= 400)

\* The number of token requests that come after an API request.
TokenAfterApi ==
    Cardinality({i \in 1..Len(last.reqs) :
                   /\ IsTokenRequest(last.reqs[i])
                   /\ \E j \in 1..(i - 1) : ~IsTokenRequest(last.reqs[j])})

\* The request counts and the order of C14, without what the caller is told.
AtMostOneOfEach ==
    /\ Len(TokenRequests) <= 1
    /\ Len(ApiRequests) <= 1
    /\ TokenAfterApi = 0
    /\ TokenRequestFailed => ApiRequests = <<>>

\* C14: every call of a getter or a service sends at most one token request
\* and then at most one API request; once one of them has failed no further
\* request is sent and the call ends with a failure to its caller.
C14_NoInternalRetry ==
    last.op \notin {"idle", "create_api_user", "create_api_key"}
    => (/\ AtMostOneOfEach
        /\ (TokenRequestFailed \/ ApiRequestFailed) => ReportsFailure)

\* The amount among the arguments of the last call.
AmountArg == IF last.op = "Invoices.create" THEN last.args[1] ELSE last.args[2]

\* An amount that float() takes and that is below zero.
Negative(a) == a \in Floatable /\ Float(a) < 0

\* C15: on a provisioned manager request_payment and request_cash_out given
\* a negative amount raise the validation failure and send no request.
C15_NegativeAmountRejected ==
    (/\ last.op \in {"request_payment", "request_cash_out"}
     /\ WasProvisioned
     /\ Negative(AmountArg))
    => (/\ last.exc = ValidationFailure
        /\ last.reqs = <<>>)

\* Text that ends in a point and exactly two digits, with digits before it.
TwoFractionDigits(s) ==
    /\ Len(s) >= 4
    /\ s[Len(s) - 2] = "."
    /\ \A i \in 1..Len(s) : i # Len(s) - 2 => s[i] \in Digit

\* C16: on a provisioned manager every state-creating request that is sent,
\* the invoice among them, carries its amount as text with exactly two
\* fraction digits, the same text for equal values of any input type; an
\* amount that is no number raises the validation failure and sends nothing.
C16_AmountEncoding ==
    (/\ last.op \in Creators \cup {"Invoices.create"}
     /\ WasProvisioned)
    => (/\ \A i \in 1..Len(ApiRequests) :
              /\ AmountArg \in Floatable
              /\ Float(AmountArg) >= 0 => TwoFractionDigits(ApiRequests[i].body.amount)
              /\ ApiRequests[i].body.amount = Format2f(Float(AmountArg))
        /\ AmountArg \notin Floatable
              => (last.exc = ValidationFailure /\ last.reqs = <<>>))

\* The last call got past the test of its phone.
PhoneAccepted == ~(last.exc = ValidationFailure /\ last.msg = "Invalid phone format")

\* C17: every phone that transfer_funds accepts is one that request_payment
\* accepts (one that matches its pattern), and request_payment accepts a
\* phone that transfer_funds rejects.
C17_TransferPhoneStricter ==
    /\ (last.op = "transfer_funds" /\ PhoneAccepted) => last.args[1] \in Match260
    /\ (last.op = "request_payment" /\ WasProvisioned /\ PhoneAccepted)
           => last.args[1] \in Match260
    /\ \E phone \in Match260 :
           \A o \in transfer_funds(phone, [type |-> "int", v |-> 10], "EUR") :
               o.exc = ValidationFailure /\ o.msg = "Invalid phone format"

\* Every way the call can go ends in the validation failure with nothing sent.
AlwaysRejected(outcomes) == \A o \in outcomes : o.exc = ValidationFailure /\ o.reqs = <<>>

\* The payloads the call can send to the deposit endpoint.
DepositPayloads(outcomes) ==
    {o.reqs[i].body : o \in {x \in outcomes : Len(x.reqs) > 0}, i \in {1, 2}} \ {<<>>}

\* C18: whenever one of deposit_funds and cash_in has been called on a
\* provisioned manager, the two
\* calls, given its phone and amount in the state the manager is in, either
\* both fail the local validation or both can send the same payload (amount,
\* currency "EUR", payee) to the deposit endpoint.
C18_DepositEqualsCashIn ==
    (last.op \in {"deposit_funds", "cash_in"} /\ WasProvisioned)
    => LET d == deposit_funds(last.args[1], last.args[2])
           c == cash_in(last.args[1], last.args[2], "EUR")
       IN  \/ AlwaysRejected(d) /\ AlwaysRejected(c)
           \/ /\ ~AlwaysRejected(d)
              /\ ~AlwaysRejected(c)
              /\ DepositPayloads(d) = DepositPayloads(c)

\* The provider refused the token exchange of the last call.
ExchangeRejected == last.tresp.kind = "http" /\ last.tresp.status \in {400, 401}

\* The failure get_detailed_info raises for a consent that is not, or no
\* longer, granted.
ConsentFailure == last.exc = ConnectionFailure /\ last.msg = "Consent expired or revoked"

\* C19: on a provisioned manager get_detailed_info first sends the token exchange for its consent id
\* and only after it the userinfo request, which carries the token of that
\* exchange; a rejected exchange, like a 401 for the userinfo request, ends
\* the call with the failure for a missing consent, and after a rejected
\* exchange no userinfo request is sent.
C19_ExchangeThenUserinfo ==
    (last.op = "get_detailed_info" /\ WasProvisioned)
    => (/\ Len(last.reqs) \in {1, 2}
        /\ last.reqs[1].ep = "oauth2/token"
        /\ last.reqs[1].body = last.args[1]
        /\ Len(last.reqs) = 2
              => (/\ last.reqs[2].ep = "disbursement/oauth2/v1_0/userinfo"
                  /\ last.tresp.kind = "ok"
                  /\ last.reqs[2].a = last.tresp.access_token)
        /\ ExchangeRejected => (Len(last.reqs) = 1 /\ ConsentFailure)
        /\ (Len(last.reqs) = 2 /\ last.resp.status = 401) => ConsentFailure)

\* C20: under any sequence of request_consent and get_detailed_info calls
\* every consent id is sent in at most one token exchange.
C20_ConsentConsumedOnce == \A a \in AuthReqIds : exchanged[a] <= 1

\* The calls of the Collections, Disbursements, Invoices and KYC services.
ServiceCalls ==
    Creators \cup {"check_payment_status", "send_payment_notification",
                   "check_transfer_status", "check_cash_in_status", "Invoices.create",
                   "Invoices.check_status", "Invoices.delete", "get_basic_info",
                   "validate_identity", "request_consent", "get_detailed_info"}

\* What the last call changed on the manager.
BearerChanged == token # last.pre.token \/ token_expiry # last.pre.token_expiry
OAuthChanged == oauth_token # last.pre.oauth_token \/ oauth_expiry # last.pre.oauth_expiry

\* The token request of the last call was answered with a token.
TokenRequestSucceeded == Len(TokenRequests) = 1 /\ last.tresp.kind = "ok"

\* C21: a service call leaves api_user and api_key as they were; the cached
\* token and its expiry, and the OAuth token and its expiry, differ after the
\* call only when its getter made a token request that succeeded, and then
\* hold what that answer gave; a creation call that failed without such a
\* request leaves the whole manager as it found it.
C21_ServicesLeaveManagerAlone ==
    last.op \in ServiceCalls
    => (/\ api_user = last.pre.api_user
        /\ api_key = last.pre.api_key
        /\ BearerChanged
              => (/\ last.op # "get_detailed_info"
                  /\ TokenRequestSucceeded
                  /\ token = last.tresp.access_token)
        /\ OAuthChanged
              => (/\ last.op = "get_detailed_info"
                  /\ TokenRequestSucceeded
                  /\ oauth_token = last.tresp.access_token)
        /\ (last.op \in Creators /\ last.exc # "None" /\ ~TokenRequestSucceeded)
              => (~BearerChanged /\ ~OAuthChanged))

\* C21 witness: a creation call on a cached, still valid token whose POST
\* the provider refused.
C21_Witness ==
    /\ last.op \in Creators
    /\ last.pre.token # NoToken
    /\ last.at < last.pre.token_expiry
    /\ Len(ApiRequests) = 1
    /\ last.exc = ConnectionFailure
    /\ ~BearerChanged

\* C22: a token getter whose token request failed, by a transport error or
\* an error status, ends with a failure and leaves the cached token and its
\* expiry, and the OAuth pair, exactly as it found them, so that the next
\* call of the getter finds no valid cache entry either.
C22_FailedRefreshKeepsCache ==
    (/\ last.op \in TokenGetters \cup {"get_oauth_token"}
     /\ TokenRequestFailed)
    => (/\ last.exc # "None"
        /\ ~BearerChanged
        /\ ~OAuthChanged
        /\ last.op = "get_collection_token" => ~CollectionCacheHit(token, token_expiry, now)
        /\ last.op = "get_disbursement_token" => ~DisbursementCacheHit(token, token_expiry, now))

\* C22 witness: the refresh of an expired token of a provisioned manager
\* failed with an error status and the old pair is still cached.
C22_Witness ==
    /\ last.op \in TokenGetters
    /\ WasProvisioned
    /\ last.pre.token # NoToken
    /\ TokenRequestFailed
    /\ last.tresp.kind = "http"
    /\ token = last.pre.token
    /\ token_expiry = last.pre.token_expiry

\* C23: whenever is_initialized() is true, api_key is a key the provider
\* issued for the current api_user and that api_user is a registered id.
C23_ConsistentCredentials ==
    is_initialized(api_user, api_key) => ValidCredentials(api_user, api_key)

NextTokens ==
    \/ create_api_user
    \/ create_api_key
    \/ GetCollectionToken
    \/ GetDisbursementToken
    \/ GetOauthToken
    \/ Return
    \/ Tick

\* The manager under sequences of its own operations: provisioning and the
\* three token getters.
SpecTokens == Init /\ [][NextTokens]_vars

====
